---- MODULE Spec2Model ----
(***************************************************************************)
(* Model of the proposal dashboard view, src/src/pages/Dashboard.tsx.      *)
(*                                                                         *)
(* The state is the component's seven useState cells, the requests the     *)
(* view has in flight at the external data collaborator (one entry per     *)
(* running loadProposals / handleDelete invocation, with the position of   *)
(* its await), the collaborator's own collection, and the notifications    *)
(* handed to the toast library.  Strings are sequences of one-character    *)
(* strings so that trim, toLowerCase, includes and the message template    *)
(* are computed rather than assumed.                                       *)
(*                                                                         *)
(* A handler and the passive effects its state updates trigger form one    *)
(* step: React runs the filter effect of lines 54-71 before it dispatches  *)
(* the next event, and no handler reads filteredProposals.                 *)
(***************************************************************************)
EXTENDS Integers, Sequences, FiniteSets, Bags, TLC

VARIABLES
    store,              \* the collaborator's collection (behind fetchProposals / deleteProposal)
    proposals,          \* useState, line 28
    filteredProposals,  \* useState, line 29
    loading,            \* useState, line 30
    selectedProposal,   \* useState, line 31
    selectedTemplate,   \* useState, line 32
    searchQuery,        \* useState, line 33
    searchBy,           \* useState, line 34
    calls,              \* bag of the running loadProposals / handleDelete invocations
    toasts,             \* what the step just taken gave to toast(), in order
    clicked,            \* the row id the step just taken gave to handleProposalSelect
    failed              \* some request of the view has been rejected

vars == <<store, proposals, filteredProposals, loading, selectedProposal,
          selectedTemplate, searchQuery, searchBy, calls, toasts, clicked, failed>>

----------------------------------------------------------------------------
(* Bounds *)

MaxQueryLen == 2    \* how much of the search text is typed
MaxInFlight == 2    \* handler invocations awaiting the collaborator at once

----------------------------------------------------------------------------
(* Strings *)

Null == "null"            \* JavaScript null (selectedProposal)
Undefined == <<"undefined">>  \* an absent optional field (clientEmail)

Standard == <<"s", "t", "a", "n", "d", "a", "r", "d">>
Detailed == <<"d", "e", "t", "a", "i", "l", "e", "d">>
Summary == <<"s", "u", "m", "m", "a", "r", "y">>
Formal == <<"f", "o", "r", "m", "a", "l">>
StandardLabel == <<"S", "t", "a", "n", "d", "a", "r", "d", " ", "P", "r", "o", "p", "o", "s", "a", "l">>
DetailedLabel == <<"D", "e", "t", "a", "i", "l", "e", "d", " ", "B", "r", "e", "a", "k", "d", "o", "w", "n">>
SummaryLabel == <<"B", "r", "i", "e", "f", " ", "S", "u", "m", "m", "a", "r", "y">>
FormalLabel == <<"F", "o", "r", "m", "a", "l", " ", "B", "u", "s", "i", "n", "e", "s", "s", " ", "P", "r", "o", "p", "o", "s", "a", "l">>

emailTemplateOptions ==
    << [value |-> Standard, label |-> StandardLabel],
       [value |-> Detailed, label |-> DetailedLabel],
       [value |-> Summary,  label |-> SummaryLabel],
       [value |-> Formal,   label |-> FormalLabel] >>

TemplateValues == { emailTemplateOptions[i].value : i \in DOMAIN emailTemplateOptions }

LabelOf(t) ==
    emailTemplateOptions[CHOOSE i \in DOMAIN emailTemplateOptions :
                             emailTemplateOptions[i].value = t].label

SelectMsg == <<"P", "l", "e", "a", "s", "e", " ", "s", "e", "l", "e", "c", "t", " ", "a", " ", "p", "r", "o", "p", "o", "s", "a", "l", " ", "t", "o", " ", "s", "e", "n", "d">>
NotFoundMsg == <<"P", "r", "o", "p", "o", "s", "a", "l", " ", "n", "o", "t", " ", "f", "o", "u", "n", "d">>
NoEmailMsg == <<"N", "o", " ", "e", "m", "a", "i", "l", " ", "a", "d", "d", "r", "e", "s", "s", " ", "f", "o", "u", "n", "d", " ", "f", "o", "r", " ", "t", "h", "i", "s", " ", "c", "l", "i", "e", "n", "t">>
SentPrefix == <<"E", "m", "a", "i", "l", " ", "s", "e", "n", "t", " ", "t", "o", " ">>
SentUsing == <<" ", "u", "s", "i", "n", "g", " ">>
SentSuffix == <<" ", "t", "e", "m", "p", "l", "a", "t", "e">>

\* String.prototype.toLowerCase, on the characters the model uses
LowerChar(c) ==
    CASE c = "A" -> "a"
      [] c = "B" -> "b"
      [] OTHER -> c

ToLowerCase(s) == [i \in 1..Len(s) |-> LowerChar(s[i])]

\* String.prototype.trim
RECURSIVE Trim(_)
Trim(s) ==
    IF s = <<>> THEN s
    ELSE IF Head(s) = " " THEN Trim(Tail(s))
    ELSE IF s[Len(s)] = " " THEN Trim(SubSeq(s, 1, Len(s) - 1))
    ELSE s

\* String.prototype.includes
Includes(s, sub) ==
    \E k \in 0..(Len(s) - Len(sub)) : SubSeq(s, k + 1, k + Len(sub)) = sub

----------------------------------------------------------------------------
(* Data *)

\* Proposal records as the collaborator serves them (fields used by the view)
Catalog ==
    << [id |-> "p1", clientName |-> <<"A", "b">>,
        clientEmail |-> <<"a", "@", "b", ".", "c", "o", "m">>,
        tags |-> << <<"b">> >>],
       [id |-> "p2", clientName |-> <<"b", " ", "a">>,
        clientEmail |-> Undefined,
        tags |-> << <<"b">>, <<"B", "a">> >>] >>

InitialStores == { Catalog, <<>> }

\* the text typed into the search box; the input reports every prefix of it
Typed == <<" ", "A", " ", "A", "A", " ">>

Queries == { SubSeq(Typed, 1, n) : n \in 0..MaxQueryLen }

SearchFields == {"name", "tags"}

Ids(ps) == { ps[i].id : i \in DOMAIN ps }

\* the running invocations, and the bag with invocation c started or ended
Running == BagToSet(calls)

Started(c) == calls (+) SetToBag({c})

Ended(c) == calls (-) SetToBag({c})

----------------------------------------------------------------------------
(* The filter effect, lines 54-71 *)

Matches(proposal, query, by) ==
    IF by = "name"
    THEN Includes(ToLowerCase(proposal.clientName), query)
    ELSE IF by = "tags"
    THEN \E t \in DOMAIN proposal.tags : Includes(ToLowerCase(proposal.tags[t]), query)
    ELSE FALSE

\* mutant: the emptiness test forgets to trim
FilterEffect_NoTrim(ps, q, by) ==
    IF q = <<>>
    THEN ps
    ELSE LET query == ToLowerCase(q)
         IN  SelectSeq(ps, LAMBDA p : Matches(p, query, by))

FilterEffect(ps, q, by) ==
    IF Trim(q) = <<>>
    THEN ps
    ELSE LET query == ToLowerCase(q)
         IN  SelectSeq(ps, LAMBDA p : Matches(p, query, by))

----------------------------------------------------------------------------
(* What the render of lines 127-207 puts on screen *)

\* the search box, both selects and the Send Email button (lines 150-197)
ControlsRendered == ~loading /\ proposals # <<>>

\* a row of ProposalTable, bound to filteredProposals (lines 198-203)
RowRendered(id) == ControlsRendered /\ id \in Ids(filteredProposals)

----------------------------------------------------------------------------
(* Initial state: mounted, loadProposals has issued its fetch (lines 28-52) *)

LoadCall == [kind |-> "load", id |-> Null, pc |-> "fetching", served |-> FALSE, data |-> <<>>]

Init ==
    /\ store \in InitialStores
    /\ proposals = <<>>
    /\ filteredProposals = <<>>
    /\ loading = TRUE
    /\ selectedProposal = Null
    /\ selectedTemplate = Standard
    /\ searchQuery = <<>>
    /\ searchBy = "name"
    /\ calls = SetToBag({LoadCall})
    /\ toasts = <<>>
    /\ clicked = Null
    /\ failed = FALSE

\* a step that calls neither toast nor handleProposalSelect
Quiet == toasts' = <<>> /\ clicked' = Null

----------------------------------------------------------------------------
(* The collaborator.  A fetchProposals() request reads the collection at    *)
(* some point between the call and the settling of the awaited promise;    *)
(* requests of different handler runs settle in any order.                 *)

\* fetchProposals() reads the collaborator's collection
CollabServeFetch(c) ==
    /\ c \in Running
    /\ c.pc = "fetching"
    /\ ~c.served
    /\ calls' = Ended(c) (+) SetToBag({[c EXCEPT !.served = TRUE, !.data = store]})
    /\ Quiet
    /\ UNCHANGED <<store, proposals, filteredProposals, loading, selectedProposal,
                   selectedTemplate, searchQuery, searchBy, failed>>

----------------------------------------------------------------------------
(* loadProposals (lines 38-49) and handleDelete (lines 73-83)              *)

\* Delete clicked on a rendered row: line 75 issues deleteProposal(id)
handleDelete(id) ==
    /\ RowRendered(id)
    /\ BagCardinality(calls) < MaxInFlight
    /\ calls' = Started([kind |-> "delete", id |-> id, pc |-> "deleting",
                          served |-> FALSE, data |-> <<>>])
    /\ Quiet
    /\ UNCHANGED <<store, proposals, filteredProposals, loading, selectedProposal,
                   selectedTemplate, searchQuery, searchBy, failed>>

\* await deleteProposal(id) resolves, the collaborator having removed the
\* record: line 77 issues fetchProposals()
DeleteResolve(c) ==
    /\ c \in Running
    /\ c.pc = "deleting"
    /\ store' = SelectSeq(store, LAMBDA p : p.id # c.id)
    /\ calls' = Ended(c) (+) SetToBag({[c EXCEPT !.pc = "fetching"]})
    /\ Quiet
    /\ UNCHANGED <<proposals, filteredProposals, loading, selectedProposal,
                   selectedTemplate, searchQuery, searchBy, failed>>

\* mutant: the catch block empties the list
DeleteReject_ClearsList(c) ==
    /\ c \in Running
    /\ c.pc = "deleting"
    /\ calls' = Ended(c)
    /\ failed' = TRUE
    /\ proposals' = <<>>
    /\ filteredProposals' = <<>>
    /\ Quiet
    /\ UNCHANGED <<store, loading, selectedProposal, selectedTemplate,
                   searchQuery, searchBy>>

\* await deleteProposal(id) rejects: catch, lines 80-82 (console.error only)
DeleteReject(c) ==
    /\ c \in Running
    /\ c.pc = "deleting"
    /\ calls' = Ended(c)
    /\ failed' = TRUE
    /\ Quiet
    /\ UNCHANGED <<store, proposals, filteredProposals, loading, selectedProposal,
                   selectedTemplate, searchQuery, searchBy>>

\* mutant: the refresh after a delete also drops the selection
FetchResolve_ClearsSelection(c) ==
    /\ c \in Running
    /\ c.pc = "fetching"
    /\ c.served
    /\ proposals' = c.data
    /\ filteredProposals' = FilterEffect(c.data, searchQuery, searchBy)
    /\ loading' = IF c.kind = "load" THEN FALSE ELSE loading
    /\ selectedProposal' = IF c.kind = "delete" THEN Null ELSE selectedProposal
    /\ calls' = Ended(c)
    /\ Quiet
    /\ UNCHANGED <<store, selectedTemplate, searchQuery, searchBy, failed>>

\* await fetchProposals() resolves with data: lines 42-43 (then finally, line
\* 47) or lines 78-79.  setFilteredProposals(data) is overwritten by the
\* filter effect, which runs because proposals received a new array.
FetchResolve(c) ==
    /\ c \in Running
    /\ c.pc = "fetching"
    /\ c.served
    /\ proposals' = c.data
    /\ filteredProposals' = FilterEffect(c.data, searchQuery, searchBy)
    /\ loading' = IF c.kind = "load" THEN FALSE ELSE loading
    /\ calls' = Ended(c)
    /\ Quiet
    /\ UNCHANGED <<store, selectedProposal, selectedTemplate, searchQuery, searchBy,
                   failed>>

\* mutant: loading is cleared on the success path only (no finally)
FetchReject_NoFinally(c) ==
    /\ c \in Running
    /\ c.pc = "fetching"
    /\ calls' = Ended(c)
    /\ failed' = TRUE
    /\ Quiet
    /\ UNCHANGED <<store, proposals, filteredProposals, loading, selectedProposal,
                   selectedTemplate, searchQuery, searchBy>>

\* await fetchProposals() rejects: catch lines 44-45 and finally line 47, or
\* catch lines 80-82
FetchReject(c) ==
    /\ c \in Running
    /\ c.pc = "fetching"
    /\ loading' = IF c.kind = "load" THEN FALSE ELSE loading
    /\ calls' = Ended(c)
    /\ failed' = TRUE
    /\ Quiet
    /\ UNCHANGED <<store, proposals, filteredProposals, selectedProposal,
                   selectedTemplate, searchQuery, searchBy>>

----------------------------------------------------------------------------
(* Search box and selects (lines 153-187)                                  *)

\* onChange of the search input, line 157, and the filter effect
setSearchQuery(q) ==
    /\ ControlsRendered
    /\ q # searchQuery
    /\ searchQuery' = q
    /\ filteredProposals' = FilterEffect(proposals, q, searchBy)
    /\ Quiet
    /\ UNCHANGED <<store, proposals, loading, selectedProposal, selectedTemplate,
                   searchBy, calls, failed>>

\* onValueChange of the "Search by" select, line 163, and the filter effect
setSearchBy(b) ==
    /\ ControlsRendered
    /\ b # searchBy
    /\ searchBy' = b
    /\ filteredProposals' = FilterEffect(proposals, searchQuery, b)
    /\ Quiet
    /\ UNCHANGED <<store, proposals, loading, selectedProposal, selectedTemplate,
                   searchQuery, calls, failed>>

\* onValueChange of the template select, line 175
setSelectedTemplate(t) ==
    /\ ControlsRendered
    /\ t # selectedTemplate
    /\ selectedTemplate' = t
    /\ Quiet
    /\ UNCHANGED <<store, proposals, filteredProposals, loading, selectedProposal,
                   searchQuery, searchBy, calls, failed>>

----------------------------------------------------------------------------
(* handleProposalSelect, lines 85-87                                       *)

\* mutant: no toggle, the clicked row is always selected
ToggleSelect_Always(current, id) == id

\* id === selectedProposal ? null : id, line 86
ToggleSelect(current, id) == IF id = current THEN Null ELSE id

handleProposalSelect(id) ==
    /\ RowRendered(id)
    /\ selectedProposal' = ToggleSelect(selectedProposal, id)
    /\ clicked' = id
    /\ toasts' = <<>>
    /\ UNCHANGED <<store, proposals, filteredProposals, loading, selectedTemplate,
                   searchQuery, searchBy, calls, failed>>

----------------------------------------------------------------------------
(* handleSendEmail, lines 89-109                                           *)

\* mutant: the message leaves the template out
SuccessMessage_NoTemplate(email, template) ==
    SentPrefix \o email \o SentUsing \o SentSuffix

\* the template literal of line 107
SuccessMessage(email, template) ==
    SentPrefix \o email \o SentUsing \o template \o SentSuffix

\* proposals.find(p => p.id === id), line 95: the first match, if there is one
Found(ps, id) == id \in Ids(ps)

Find(ps, id) ==
    ps[CHOOSE i \in DOMAIN ps :
           /\ ps[i].id = id
           /\ \A j \in 1..(i - 1) : ps[j].id # id]

\* !selectedProposal, line 90: null or the empty string
NoSelection(sel) == sel = Null \/ sel = ""

\* !proposal.clientEmail, line 101: absent or the empty string
NoEmail(email) == email = Undefined \/ email = <<>>

\* mutant: the first check does not return
SendEmailToasts_NoReturn(sel, ps, template) ==
    (IF NoSelection(sel) THEN << [kind |-> "message", text |-> SelectMsg] >> ELSE << >>)
    \o
    (IF ~Found(ps, sel)
     THEN << [kind |-> "error", text |-> NotFoundMsg] >>
     ELSE IF NoEmail(Find(ps, sel).clientEmail)
     THEN << [kind |-> "error", text |-> NoEmailMsg] >>
     ELSE << [kind |-> "success",
              text |-> SuccessMessage(Find(ps, sel).clientEmail, template)] >>)

\* the notifications one run of lines 89-109 hands to toast
SendEmailToasts(sel, ps, template) ==
    IF NoSelection(sel)
    THEN << [kind |-> "message", text |-> SelectMsg] >>
    ELSE IF ~Found(ps, sel)
    THEN << [kind |-> "error", text |-> NotFoundMsg] >>
    ELSE IF NoEmail(Find(ps, sel).clientEmail)
    THEN << [kind |-> "error", text |-> NoEmailMsg] >>
    ELSE << [kind |-> "success",
             text |-> SuccessMessage(Find(ps, sel).clientEmail, template)] >>

\* The handler is modelled wherever the button is on screen.  Line 191
\* hands disabled={!selectedProposal} to the Button component; the handler
\* repeats that check itself at line 90 and does not depend on it.
handleSendEmail ==
    /\ ControlsRendered
    /\ toasts' = SendEmailToasts(selectedProposal, proposals, selectedTemplate)
    /\ clicked' = Null
    /\ UNCHANGED <<store, proposals, filteredProposals, loading, selectedProposal,
                   selectedTemplate, searchQuery, searchBy, calls, failed>>

----------------------------------------------------------------------------
(* Specifications *)

Next ==
    \/ \E c \in Running : CollabServeFetch(c)
    \/ \E id \in Ids(Catalog) : handleDelete(id)
    \/ \E c \in Running : DeleteResolve(c)
    \/ \E c \in Running : DeleteReject(c)
    \/ \E c \in Running : FetchResolve(c)
    \/ \E c \in Running : FetchReject(c)
    \/ \E q \in Queries : setSearchQuery(q)
    \/ \E b \in SearchFields : setSearchBy(b)
    \/ \E t \in TemplateValues : setSelectedTemplate(t)
    \/ \E id \in Ids(Catalog) : handleProposalSelect(id)
    \/ handleSendEmail

Spec == Init /\ [][Next]_vars

\* The collaborator answers every request, and every awaited promise settles
Serve == \E c \in Running : CollabServeFetch(c)

Settle ==
    \E c \in Running : DeleteResolve(c) \/ DeleteReject(c) \/ FetchResolve(c) \/ FetchReject(c)

LiveSpec == Init /\ [][Next]_vars /\ WF_vars(Serve) /\ WF_vars(Settle)

TypeOK ==
    /\ loading \in BOOLEAN
    /\ selectedProposal \in Ids(Catalog) \cup {Null}
    /\ selectedTemplate \in TemplateValues
    /\ searchQuery \in Queries
    /\ searchBy \in SearchFields
    /\ BagCardinality(calls) <= MaxInFlight
    /\ Len(toasts) <= 1

----------------------------------------------------------------------------
(* Properties *)

\* sub is full with some elements left out, the others in their order
IsSubsequence(sub, full) ==
    \E f \in [1..Len(sub) -> 1..Len(full)] :
        /\ \A i \in 1..Len(sub) : full[f[i]] = sub[i]
        /\ \A i, j \in 1..Len(sub) : i < j => f[i] < f[j]

\* the selected proposal, when the selection names one of proposals
SelectedRecord == CHOOSE p \in { proposals[i] : i \in DOMAIN proposals } : p.id = selectedProposal

\* the chosen field of p contains the trimmed query, case-insensitively
ContainsTrimmed(p, q, by) ==
    LET needle == ToLowerCase(Trim(q))
    IN  IF by = "name"
        THEN Includes(ToLowerCase(p.clientName), needle)
        ELSE \E t \in DOMAIN p.tags : Includes(ToLowerCase(p.tags[t]), needle)

\* C1: in every state of the view, filteredProposals is an order-preserving
\* subsequence of proposals, and it equals proposals whenever the trimmed
\* search query is empty.
C1_Theorem ==
    /\ IsSubsequence(filteredProposals, proposals)
    /\ Trim(searchQuery) = <<>> => filteredProposals = proposals

\* C1 witness: a query is active and keeps some, not all, of the proposals
C1_Witness ==
    /\ Trim(searchQuery) # <<>>
    /\ filteredProposals # <<>>
    /\ Len(filteredProposals) < Len(proposals)

\* C2 (as claimed): for a query whose trimmed form is non-empty, the filter
\* keeps exactly the proposals whose chosen field contains the trimmed query,
\* case-insensitively.
C2_Claim ==
    Trim(searchQuery) # <<>> =>
        filteredProposals =
            SelectSeq(proposals, LAMBDA p : ContainsTrimmed(p, searchQuery, searchBy))

\* C3: every run of Send Email gives toast exactly one notification, chosen by
\* the first failing check: no selection, the informational notice; selection
\* absent from proposals, "not found"; no clientEmail, "no email address"; a
\* success notification only when all three checks pass.
C3_Theorem ==
    [][ (handleSendEmail \/ toasts' # <<>>) =>
          /\ Len(toasts') = 1
          /\ IF selectedProposal = Null
             THEN toasts'[1] = [kind |-> "message", text |-> SelectMsg]
             ELSE IF selectedProposal \notin Ids(proposals)
             THEN toasts'[1] = [kind |-> "error", text |-> NotFoundMsg]
             ELSE IF SelectedRecord.clientEmail \in {Undefined, <<>>}
             THEN toasts'[1] = [kind |-> "error", text |-> NoEmailMsg]
             ELSE toasts'[1].kind = "success" ]_vars

\* C3 witness: Send Email ran without a selection and gave the one notice
C3_Witness ==
    /\ selectedProposal = Null
    /\ toasts = << [kind |-> "message", text |-> SelectMsg] >>

\* C4 (as claimed): the success notification contains the proposal's
\* clientEmail and the label of the selected template.
C4_Claim ==
    (toasts # <<>> /\ toasts[1].kind = "success") =>
        /\ Includes(toasts[1].text, SelectedRecord.clientEmail)
        /\ Includes(toasts[1].text, LabelOf(selectedTemplate))

\* C4 (amended): the success notification contains the proposal's clientEmail
\* and the identifier (value) of the selected template, for each of the four
\* templates.
C4_Theorem ==
    (toasts # <<>> /\ toasts[1].kind = "success") =>
        /\ Includes(toasts[1].text, SelectedRecord.clientEmail)
        /\ Includes(toasts[1].text, selectedTemplate)

\* C4 witness: a success notification sent with the last template of the table
C4_Witness ==
    /\ toasts # <<>>
    /\ toasts[1].kind = "success"
    /\ selectedTemplate = Formal
    /\ selectedProposal = "p1"

\* C5 (as claimed): once every Delete has completed, all deletions and
\* fetches having succeeded, proposals is the collaborator's current
\* collection.
C5_Claim ==
    (calls = EmptyBag /\ ~failed) => proposals = store

\* C6 (as claimed): the view never has two requests outstanding at the
\* collaborator (every running invocation awaits exactly one).
C6_Claim ==
    BagCardinality(calls) <= 1

\* C7: the selection is empty or one id; selecting the selected id empties it,
\* selecting any other id makes it exactly that id.
C7_Theorem ==
    /\ [](selectedProposal \in Ids(Catalog) \cup {Null})
    /\ [][ clicked' # Null =>
             selectedProposal' = IF selectedProposal = clicked' THEN Null ELSE clicked' ]_vars

\* C7 witness: the row just clicked was the selected one, and the selection is empty
C7_Witness ==
    /\ clicked # Null
    /\ selectedProposal = Null

\* the running loadProposals invocation, if any
LoadPending == \E c \in Running : c.kind = "load"

\* C8: loading is true from mount until the initial fetch settles, it
\* eventually becomes false whether that fetch resolves or rejects, and once
\* false it is never true again, whatever happens later (deletes included).
C8_Theorem ==
    /\ [](loading <=> LoadPending)
    /\ <>(~loading)
    /\ [][~loading => ~loading']_vars

\* C8 witness: loading has been cleared and a delete's re-fetch is under way
C8_Witness ==
    /\ ~loading
    /\ \E c \in Running : c.kind = "delete" /\ c.pc = "fetching"

\* C9: a rejected request gives no notification and leaves proposals and
\* filteredProposals as they were (empty, for the initial fetch); after a
\* rejected deleteProposal the invocation ends without a re-fetch.
C9_Theorem ==
    /\ [](loading => proposals = <<>> /\ filteredProposals = <<>>)
    /\ [][ \A c \in Running :
             (DeleteReject(c) \/ FetchReject(c)) =>
                 /\ UNCHANGED <<proposals, filteredProposals>>
                 /\ toasts' = <<>>
                 /\ calls' = Ended(c) ]_vars

\* C9 witness: the re-fetch after a successful deletion was rejected, so the
\* list still shows the record the collaborator no longer has
C9_Witness ==
    /\ failed
    /\ calls = EmptyBag
    /\ proposals = Catalog
    /\ store # Catalog

\* a step of a handleDelete invocation: its start or one of its continuations
DeleteStep ==
    \/ \E id \in Ids(Catalog) : handleDelete(id)
    \/ \E c \in Running :
          /\ c.kind = "delete"
          /\ DeleteResolve(c) \/ DeleteReject(c) \/ FetchResolve(c) \/ FetchReject(c)

\* C10: Delete leaves selectedProposal, selectedTemplate, searchQuery,
\* searchBy and loading unchanged, also when the deleted id is the selected
\* one; Send Email with a selection that is no longer in proposals gives the
\* "not found" error.
C10_Theorem ==
    /\ [][ DeleteStep =>
             UNCHANGED <<selectedProposal, selectedTemplate, searchQuery, searchBy, loading>> ]_vars
    /\ []( (toasts # <<>> /\ selectedProposal # Null /\ selectedProposal \notin Ids(proposals)) =>
             toasts = << [kind |-> "error", text |-> NotFoundMsg] >> )

\* C10 witness: the selected proposal was deleted, the list refreshed, and
\* Send Email answered "not found"
C10_Witness ==
    /\ selectedProposal # Null
    /\ selectedProposal \notin Ids(store)
    /\ selectedProposal \notin Ids(proposals)
    /\ toasts = << [kind |-> "error", text |-> NotFoundMsg] >>

====
